---- MODULE Spec2Model ----
(***************************************************************************)
(* Model of src/whatsapp/transcribe.py: a straight-line script that        *)
(* imports the whisper library, checks its argument count, loads a model,  *)
(* transcribes one audio file in English and prints the trimmed text.      *)
(*                                                                         *)
(* Conventions.  A Python string that the script only passes along (an     *)
(* argument of sys.argv) is a TLA+ string.  A string the script computes   *)
(* on or writes (the transcript text, standard output) is a sequence of    *)
(* one-character strings.  A Python name that may be unbound, and the exit *)
(* status of a process that may still be running, is <<>> (unbound) or     *)
(* <<v>> (bound to v).  sys.argv[i] of the source is argv[i + 1] here.     *)
(***************************************************************************)
EXTENDS Integers, Sequences, FiniteSets, TLC

\* ------------------------------------------------------------------ bounds

\* Most command-line arguments after the program name.
MaxArgs == 3

\* Longest text the transcription returns.
MaxTextLen == 4

\* ------------------------------------------------------------------ inputs

\* The strings a command-line argument is drawn from: the empty string, a
\* file name, a model name.
ArgStrings == {"", "speech.wav", "large"}

\* The characters of a transcription text: two kinds of whitespace and a
\* letter.
Alphabet == {" ", "\n", "a"}

SeqsUpTo(S, n) == UNION {[1..k -> S] : k \in 0..n}

\* sys.argv: the program name followed by the arguments.
Argvs == {<<"transcribe.py">> \o a : a \in SeqsUpTo(ArgStrings, MaxArgs)}

\* The texts model.transcribe may return in result["text"].
Texts == SeqsUpTo(Alphabet, MaxTextLen)

\* ------------------------------------------------------------------- state

VARIABLES
    argv,         \* sys.argv
    pc,           \* the statement the script is at
    whisper,      \* TRUE once `import whisper` has bound the module
    audio_path,   \* <<>> or <<sys.argv[1]>>
    model_name,   \* <<>> or <<the model identifier>>
    model,        \* <<>> or <<the handle load_model returned>>
    result,       \* <<>> or <<the dict transcribe returned>>
    stdout,       \* the characters written to standard output
    stderr,       \* the diagnostics written to standard error
    exit_status,  \* <<>> while running, <<n>> once the process has ended
    trace         \* the statements executed so far, with their call arguments

vars == <<argv, pc, whisper, audio_path, model_name, model, result,
          stdout, stderr, exit_status, trace>>

\* One executed statement: its name, the arguments of the call it makes to the
\* library, and whether it returned (TRUE) or raised (FALSE).
Step(name, args, ok) == [step |-> name, args |-> args, ok |-> ok]

\* --------------------------------------------------------------- functions

\* The characters of "Usage: python transcribe.py <audio_file>".
Usage ==
    <<"U","s","a","g","e",":"," ","p","y","t","h","o","n"," ",
      "t","r","a","n","s","c","r","i","b","e",".","p","y"," ",
      "<","a","u","d","i","o","_","f","i","l","e",">">>

\* print(s): s followed by a newline, appended to the stream.
print(out, s) == out \o s \o <<"\n">>

\* len(sys.argv) < 2
MissingAudio(args) == Len(args) < 2

\* audio_path = sys.argv[1]
AudioPath_ProgramName(args) == args[1]

AudioPath(args) == args[2]

\* model_name = sys.argv[2] if len(sys.argv) > 2 else "base"
ModelName_WrongIndex(args) == IF Len(args) > 2 THEN args[2] ELSE "base"

ModelName(args) == IF Len(args) > 2 THEN args[3] ELSE "base"

\* The arguments of model.transcribe(audio_path, language="en").
TranscribeArgs_AutoLanguage(path) == <<path, "auto">>

TranscribeArgs(path) == <<path, "en">>

\* str.isspace for one character.
IsSpace(c) == c \in {" ", "\t", "\n", "\r", "\f"}

RECURSIVE lstrip(_)
lstrip(s) == IF s # <<>> /\ IsSpace(Head(s)) THEN lstrip(Tail(s)) ELSE s

RECURSIVE rstrip(_)
rstrip(s) ==
    IF s # <<>> /\ IsSpace(s[Len(s)]) THEN rstrip(SubSeq(s, 1, Len(s) - 1)) ELSE s

\* str.strip(): leading and trailing whitespace removed.
strip_LeadingOnly(s) == lstrip(s)

strip(s) == rstrip(lstrip(s))

\* An exception nothing catches: the interpreter writes the traceback to
\* standard error and the process ends with status 1.
Uncaught ==
    /\ stderr' = Append(stderr, "Traceback")
    /\ exit_status' = <<1>>
    /\ pc' = "done"

\* -------------------------------------------------------------------- Init

Init ==
    /\ argv \in Argvs
    /\ pc = "import"
    /\ whisper = FALSE
    /\ audio_path = <<>>
    /\ model_name = <<>>
    /\ model = <<>>
    /\ result = <<>>
    /\ stdout = <<>>
    /\ stderr = <<>>
    /\ exit_status = <<>>
    /\ trace = <<>>

\* ----------------------------------------------------------------- actions

\* import sys; import whisper, the library being importable.
Import_EagerLoad ==
    /\ pc = "import"
    /\ whisper' = TRUE
    /\ model' = <<[name |-> "base"]>>
    /\ trace' = trace \o <<Step("import", <<>>, TRUE),
                           Step("load_model", <<"base">>, TRUE)>>
    /\ pc' = "check"
    /\ UNCHANGED <<argv, audio_path, model_name, result, stdout, stderr,
                   exit_status>>

Import ==
    /\ pc = "import"
    /\ whisper' = TRUE
    /\ trace' = Append(trace, Step("import", <<>>, TRUE))
    /\ pc' = "check"
    /\ UNCHANGED <<argv, audio_path, model_name, model, result, stdout, stderr,
                   exit_status>>

\* import whisper raising (the library or one of its dependencies is missing).
ImportRaise ==
    /\ pc = "import"
    /\ trace' = Append(trace, Step("import", <<>>, FALSE))
    /\ Uncaught
    /\ UNCHANGED <<argv, whisper, audio_path, model_name, model, result, stdout>>

\* if len(sys.argv) < 2:
Check ==
    /\ pc = "check"
    /\ trace' = Append(trace, Step("check", <<>>, TRUE))
    /\ pc' = IF MissingAudio(argv) THEN "usage" ELSE "assign"
    /\ UNCHANGED <<argv, whisper, audio_path, model_name, model, result, stdout,
                   stderr, exit_status>>

\* print("Usage: python transcribe.py <audio_file>")
PrintUsage_ToStderr ==
    /\ pc = "usage"
    /\ stderr' = Append(stderr, "Usage: python transcribe.py <audio_file>")
    /\ trace' = Append(trace, Step("usage", <<>>, TRUE))
    /\ pc' = "exit"
    /\ UNCHANGED <<argv, whisper, audio_path, model_name, model, result, stdout,
                   exit_status>>

PrintUsage ==
    /\ pc = "usage"
    /\ stdout' = print(stdout, Usage)
    /\ trace' = Append(trace, Step("usage", <<>>, TRUE))
    /\ pc' = "exit"
    /\ UNCHANGED <<argv, whisper, audio_path, model_name, model, result, stderr,
                   exit_status>>

\* sys.exit(1)
SysExit_Zero ==
    /\ pc = "exit"
    /\ exit_status' = <<0>>
    /\ trace' = Append(trace, Step("exit", <<>>, TRUE))
    /\ pc' = "done"
    /\ UNCHANGED <<argv, whisper, audio_path, model_name, model, result, stdout,
                   stderr>>

SysExit ==
    /\ pc = "exit"
    /\ exit_status' = <<1>>
    /\ trace' = Append(trace, Step("exit", <<>>, TRUE))
    /\ pc' = "done"
    /\ UNCHANGED <<argv, whisper, audio_path, model_name, model, result, stdout,
                   stderr>>

\* audio_path = sys.argv[1]; model_name = sys.argv[2] if ... else "base"
Assign ==
    /\ pc = "assign"
    /\ audio_path' = <<AudioPath(argv)>>
    /\ model_name' = <<ModelName(argv)>>
    /\ trace' = Append(trace, Step("assign", <<>>, TRUE))
    /\ pc' = "load"
    /\ UNCHANGED <<argv, whisper, model, result, stdout, stderr, exit_status>>

\* model = whisper.load_model(model_name), the library returning a handle.
LoadModel ==
    /\ pc = "load"
    /\ model' = <<[name |-> model_name[1]]>>
    /\ trace' = Append(trace, Step("load_model", <<model_name[1]>>, TRUE))
    /\ pc' = "transcribe"
    /\ UNCHANGED <<argv, whisper, audio_path, model_name, result, stdout, stderr,
                   exit_status>>

\* whisper.load_model(model_name) raising (unknown name, failed download, ...).
LoadModelRaise_Ignored ==
    /\ pc = "load"
    /\ trace' = Append(trace, Step("load_model", <<model_name[1]>>, FALSE))
    /\ pc' = "transcribe"
    /\ UNCHANGED <<argv, whisper, audio_path, model_name, model, result, stdout,
                   stderr, exit_status>>

LoadModelRaise ==
    /\ pc = "load"
    /\ trace' = Append(trace, Step("load_model", <<model_name[1]>>, FALSE))
    /\ Uncaught
    /\ UNCHANGED <<argv, whisper, audio_path, model_name, model, result, stdout>>

\* result = model.transcribe(audio_path, language="en"), the library returning
\* a dict whose "text" is any string.
Transcribe ==
    /\ pc = "transcribe"
    /\ \E t \in Texts : result' = <<[text |-> t]>>
    /\ trace' = Append(trace, Step("transcribe", TranscribeArgs(audio_path[1]), TRUE))
    /\ pc' = "print"
    /\ UNCHANGED <<argv, whisper, audio_path, model_name, model, stdout, stderr,
                   exit_status>>

\* model.transcribe(...) raising (missing or unreadable file, library fault).
TranscribeRaise_Swallowed ==
    /\ pc = "transcribe"
    /\ result' = <<[text |-> <<>>]>>
    /\ trace' = Append(trace, Step("transcribe", TranscribeArgs(audio_path[1]), FALSE))
    /\ pc' = "print"
    /\ UNCHANGED <<argv, whisper, audio_path, model_name, model, stdout, stderr,
                   exit_status>>

TranscribeRaise ==
    /\ pc = "transcribe"
    /\ trace' = Append(trace, Step("transcribe", TranscribeArgs(audio_path[1]), FALSE))
    /\ Uncaught
    /\ UNCHANGED <<argv, whisper, audio_path, model_name, model, result, stdout>>

\* print(result["text"].strip())
PrintText_Twice ==
    /\ pc = "print"
    /\ stdout' = print(print(stdout, strip(result[1].text)), strip(result[1].text))
    /\ trace' = trace \o <<Step("print", <<>>, TRUE), Step("print", <<>>, TRUE)>>
    /\ pc' = "end"
    /\ UNCHANGED <<argv, whisper, audio_path, model_name, model, result, stderr,
                   exit_status>>

PrintText ==
    /\ pc = "print"
    /\ stdout' = print(stdout, strip(result[1].text))
    /\ trace' = Append(trace, Step("print", <<>>, TRUE))
    /\ pc' = "end"
    /\ UNCHANGED <<argv, whisper, audio_path, model_name, model, result, stderr,
                   exit_status>>

\* The script runs off its last line: the interpreter exits with status 0.
End ==
    /\ pc = "end"
    /\ exit_status' = <<0>>
    /\ pc' = "done"
    /\ UNCHANGED <<argv, whisper, audio_path, model_name, model, result, stdout,
                   stderr, trace>>

Next ==
    \/ Import
    \/ ImportRaise
    \/ Check
    \/ PrintUsage
    \/ SysExit
    \/ Assign
    \/ LoadModel
    \/ LoadModelRaise
    \/ Transcribe
    \/ TranscribeRaise
    \/ PrintText
    \/ End

Spec == Init /\ [][Next]_vars

\* ---------------------------------------------------------------- claims

\* The positions in the trace of the executions of one statement.
StepsNamed(n) == {i \in 1..Len(trace) : trace[i].step = n}

\* The positions in the trace of the statements that raised.
Raised == {i \in 1..Len(trace) : ~trace[i].ok}

\* The number of lines in a stream: each line ends with a newline.
Lines(out) == Cardinality({i \in 1..Len(out) : out[i] = "\n"})

\* The usage line as the specification words it.
ClaimedUsage ==
    <<"U","s","a","g","e",":"," ">> \o <<"p","y","t","h","o","n"," ">> \o
    <<"t","r","a","n","s","c","r","i","b","e",".","p","y"," ">> \o
    <<"<","a","u","d","i","o","_","f","i","l","e",">">>

\* The process has ended with a status other than 0.
ExitedNonZero == exit_status # <<>> /\ exit_status[1] # 0

\* t is s with its leading and trailing whitespace removed, and nothing else:
\* s is a run of whitespace, then t, then a run of whitespace, and t, when not
\* empty, begins and ends with a character that is not whitespace.
TrimOf(t, s) ==
    \E i \in 1..(Len(s) + 1) : \E j \in (i - 1)..Len(s) :
        /\ t = SubSeq(s, i, j)
        /\ \A k \in 1..(i - 1) : IsSpace(s[k])
        /\ \A k \in (j + 1)..Len(s) : IsSpace(s[k])
        /\ i <= j => ~IsSpace(s[i]) /\ ~IsSpace(s[j])

\* C1 as stated: a run given no argument ends having printed exactly the usage
\* line to standard output, with exit status 1 and no transcript printed.
C1_UsageOnNoArgs ==
    (pc = "done" /\ Len(argv) = 1) =>
        /\ stdout = ClaimedUsage \o <<"\n">>
        /\ exit_status = <<1>>
        /\ StepsNamed("print") = {}

\* C1 as amended: a run given no argument ends with exit status 1 and no
\* transcript printed; standard output is exactly the usage line when the
\* import of whisper succeeded, and empty when the import raised.
C1_UsageOnNoArgsOnceImported ==
    (pc = "done" /\ Len(argv) = 1) =>
        /\ exit_status = <<1>>
        /\ StepsNamed("print") = {}
        /\ whisper => stdout = ClaimedUsage \o <<"\n">>
        /\ ~whisper => stdout = <<>> /\ Raised = StepsNamed("import")

C1_Witness ==
    /\ pc = "done"
    /\ Len(argv) = 1
    /\ whisper
    /\ stdout = ClaimedUsage \o <<"\n">>
    /\ exit_status = <<1>>

\* C2: once model loading or transcription has raised, the process has ended
\* with a non-zero status, standard output is empty and no result is held; the
\* failed call was made once and no statement ran after it.
C2_FailureAborts ==
    \A i \in Raised :
        trace[i].step \in {"load_model", "transcribe"} =>
            /\ pc = "done"
            /\ ExitedNonZero
            /\ stdout = <<>>
            /\ result = <<>>
            /\ i = Len(trace)
            /\ StepsNamed(trace[i].step) = {i}

C2_Witness ==
    /\ pc = "done"
    /\ \E i \in Raised : trace[i].step = "transcribe"
    /\ \E i \in Raised : trace[i].args[1] = "speech.wav"

\* C3: a run ends with exit status 0 exactly when an audio path was given and
\* both model loading and transcription returned, and then the transcript has
\* been printed to standard output.
C3_ExitZeroIffSuccess ==
    pc = "done" =>
        LET success ==
                /\ Len(argv) >= 2
                /\ \E i \in StepsNamed("load_model") : trace[i].ok
                /\ \E i \in StepsNamed("transcribe") : trace[i].ok
        IN  /\ success <=> exit_status = <<0>>
            /\ success => StepsNamed("print") # {} /\ stdout # <<>>

C3_Witness ==
    /\ pc = "done"
    /\ exit_status = <<0>>
    /\ Len(argv) = 2
    /\ StepsNamed("print") # {}

\* C4: every call of the model loader is given argument 2 when it is present
\* and "base" when only the audio path is given.
C4_LoaderIdentifier ==
    \A i \in StepsNamed("load_model") :
        /\ Len(argv) >= 2
        /\ Len(argv) >= 3 => trace[i].args = <<argv[3]>>
        /\ Len(argv) = 2 => trace[i].args = <<"base">>

C4_Witness ==
    /\ Len(argv) = 3
    /\ argv[2] = "speech.wav"
    /\ argv[3] = "large"
    /\ \E i \in StepsNamed("load_model") : trace[i].args = <<"large">>

\* C5: every call of transcribe is given the language "en", whatever the
\* arguments of the run.
C5_LanguageEnglish ==
    \A i \in StepsNamed("transcribe") :
        Len(trace[i].args) = 2 /\ trace[i].args[2] = "en"

C5_Witness ==
    /\ Len(argv) = 4
    /\ argv[3] = "large"
    /\ \E i \in StepsNamed("transcribe") : trace[i].args[2] = "en"

\* C6: after a successful run standard output is the text of the result with
\* its leading and trailing whitespace removed, then one newline, and nothing
\* else.
C6_OutputIsTrimmedText ==
    (pc = "done" /\ exit_status = <<0>>) =>
        /\ stdout # <<>>
        /\ stdout[Len(stdout)] = "\n"
        /\ TrimOf(SubSeq(stdout, 1, Len(stdout) - 1), result[1].text)

C6_Witness ==
    /\ pc = "done"
    /\ exit_status = <<0>>
    /\ result = <<[text |-> <<"\n", "a", " ", "a">>]>>
    /\ stdout = <<"a", " ", "a", "\n">>

\* C7 as stated: when argument 1 is present, whatever string it is, transcribe
\* is given that string as the audio path, the usage line is never printed, and
\* the run has called the model loader by the time it ends.
C7_AnyAudioPathReachesLoad ==
    Len(argv) >= 2 =>
        /\ \A i \in StepsNamed("transcribe") : trace[i].args[1] = argv[2]
        /\ StepsNamed("usage") = {}
        /\ pc = "done" => StepsNamed("load_model") # {}

\* C7 as amended: when argument 1 is present, whatever string it is, transcribe
\* is given that string as the audio path, the usage line is never printed, and
\* a run in which the import of whisper succeeded passes the usage check and
\* has called the model loader by the time it ends.
C7_AnyAudioPathReachesLoadOnceImported ==
    Len(argv) >= 2 =>
        /\ \A i \in StepsNamed("transcribe") : trace[i].args[1] = argv[2]
        /\ StepsNamed("usage") = {}
        /\ pc \notin {"usage", "exit"}
        /\ (pc = "done" /\ whisper) => StepsNamed("load_model") # {}

C7_Witness ==
    /\ pc = "done"
    /\ argv[Len(argv)] = ""
    /\ Len(argv) = 2
    /\ \E i \in StepsNamed("transcribe") : trace[i].args[1] = ""

\* C8: the model loader is called at most once and only after the argument
\* check, transcribe is called at most once and only after the model loader
\* has returned a model, and the transcript is printed only after transcribe
\* has returned a result.
C8_StepOrder ==
    /\ Cardinality(StepsNamed("load_model")) <= 1
    /\ Cardinality(StepsNamed("transcribe")) <= 1
    /\ \A j \in StepsNamed("load_model") :
           \E i \in StepsNamed("check") : i < j
    /\ \A j \in StepsNamed("transcribe") :
           \E i \in StepsNamed("load_model") : i < j /\ trace[i].ok
    /\ \A j \in StepsNamed("print") :
           \E i \in StepsNamed("transcribe") : i < j /\ trace[i].ok

C8_Witness ==
    /\ StepsNamed("print") # {}
    /\ StepsNamed("transcribe") # {}
    /\ StepsNamed("load_model") # {}

\* C9: in a run given no audio path neither the model loader nor transcribe is
\* ever called, no model and no result is held, and the run ends with exit
\* status 1.
C9_UsagePathCallsNothing ==
    Len(argv) < 2 =>
        /\ StepsNamed("load_model") = {}
        /\ StepsNamed("transcribe") = {}
        /\ model = <<>>
        /\ result = <<>>
        /\ pc = "done" => exit_status = <<1>>

C9_Witness ==
    /\ Len(argv) < 2
    /\ StepsNamed("exit") # {}
    /\ pc = "done"

\* The three ways a run ends.
UsageOutcome ==
    /\ StepsNamed("usage") # {}
    /\ stdout = ClaimedUsage \o <<"\n">>
    /\ exit_status = <<1>>
    /\ Raised = {}

TranscriptOutcome ==
    /\ StepsNamed("print") # {}
    /\ exit_status = <<0>>
    /\ Raised = {}

FailureOutcome ==
    /\ Raised # {}
    /\ ExitedNonZero
    /\ StepsNamed("print") = {}
    /\ stdout = <<>>

ExactlyOneOutcome ==
    /\ UsageOutcome \/ TranscriptOutcome \/ FailureOutcome
    /\ ~(UsageOutcome /\ TranscriptOutcome)
    /\ ~(UsageOutcome /\ FailureOutcome)
    /\ ~(TranscriptOutcome /\ FailureOutcome)

\* C10 as stated: a run that has not ended can take a step, a run that has
\* ended shows exactly one of the three outcomes, and standard output never
\* holds more than one line.
C10_OneOutcomeOneLine ==
    /\ pc # "done" => ENABLED Next
    /\ pc = "done" => ExactlyOneOutcome
    /\ Lines(stdout) <= 1

\* C10 as amended: a run that has not ended can take a step, a run that has
\* ended shows exactly one of the three outcomes, and at most one print
\* statement is ever executed, so that standard output holds more than one
\* line only when the transcript text itself contains line breaks.
C10_OneOutcomeOnePrint ==
    /\ pc # "done" => ENABLED Next
    /\ pc = "done" => ExactlyOneOutcome
    /\ Cardinality(StepsNamed("usage") \cup StepsNamed("print")) <= 1
    /\ stdout # <<>> => StepsNamed("usage") \cup StepsNamed("print") # {}
    /\ Lines(stdout) > 1 =>
           /\ StepsNamed("print") # {}
           /\ Lines(stdout) <= 1 + Lines(result[1].text)

C10_Witness ==
    /\ pc = "done"
    /\ TranscriptOutcome
    /\ result = <<[text |-> <<"a", "\n", "a">>]>>
    /\ Lines(stdout) = 2

====
